---------------------------- MODULE Spec2Model ----------------------------
(***************************************************************************)
(* videostream-rs: the Frame wrapper (src/src/frame.rs), the free function *)
(* fourcc (src/src/lib.rs) and the part of the native VideoStream library, *)
(* the host and the client that the wrapper calls.                         *)
(*                                                                         *)
(* A Rust Frame is a value holding one raw pointer `ptr` to a native       *)
(* VSLFrame.  Every method passes that pointer to a vsl_frame_* function.  *)
(* The native functions, Client::get_frame and the host are not among the  *)
(* source files; they are modelled from the specification (sections 3, 4   *)
(* and 9) and are the operators named vsl_*, Client_* and Host*.           *)
(*                                                                         *)
(* A pointer whose VSLFrame has been released is dangling.  A native call  *)
(* through a dangling pointer is undefined behaviour; it is modelled as a  *)
(* choice between the call failing / doing nothing ("fault") and the call  *)
(* acting on the contents the VSLFrame had when it was released ("stale"). *)
(***************************************************************************)
EXTENDS Integers, Sequences, FiniteSets, TLC

NFrames == 1         \* Frame values created during one run of Spec
NOwners == 3         \* Frame values created during one run of SpecOwners
NSlots == 1          \* buffer slots of the host
MaxSerial == 2       \* serials the host hands out during one run
MaxChars == 5        \* longest format string tried
MaxDebt == 1         \* how far below zero a count is followed

Handles == 1..(IF NOwners > NFrames THEN NOwners ELSE NFrames)
Slots == 1..NSlots

VARIABLES
  frame,       \* frame[h]: the Rust Frame value: "none", "live", "dropped"
  ptr,         \* ptr[h]: what Frame.ptr points at: "null", "valid", "dangling"
  handle,      \* handle[h]: the VSLFrame's backing descriptor, -1 when it has none
  locked,      \* locked[h]: the VSLFrame holds the lock of its buffer
  mapped,      \* mapped[h]: the VSLFrame has a mapped view
  serial,      \* serial[h]: the serial the VSLFrame retains, 0 when free-standing
  slotState,   \* slotState[s]: "Free", "Allocated", "Published"
  count,       \* count[s]: the host's ownership count of the slot
  slotSerial,  \* slotSerial[s]: serial of the slot's current occupant
  nextSerial,  \* the next serial the host assigns
  code,        \* the format string under test (a sequence of characters)
  last         \* what the last call returned: [res, val]

vars == <<frame, ptr, handle, locked, mapped, serial, slotState, count,
          slotSerial, nextSerial, code, last>>

frameVars == <<frame, ptr, handle, locked, mapped, serial>>
hostVars == <<slotState, count, slotSerial, nextSerial>>

None == <<>>
Some(x) == <<x>>

\* What a call returns.  res is "Ok", or the error: "InvalidFormat" (the
\* message of Frame::new), "OsError" (io::Error::last_os_error()), "Err"
\* (the unit error of mmap and mmap_mut), "ClientError" (the error of
\* Client::get_frame), "Panic".  val is the fourcc value computed, if any.
Result(res, val) == [res |-> res, val |-> val]

\* No call has been made yet.
NoCall == Result("none", None)

\* A call that returned, or returned Ok(..).
Done == Result("Ok", None)

\* The two outcomes of a native call through a dangling pointer.
UB == {"stale", "fault"}

(***************************************************************************)
(* Format strings.  A Rust &str is UTF-8: a character is one or more       *)
(* bytes.  The characters tried are 'A', 'z' and the two-byte e-acute.     *)
(***************************************************************************)
CharSet == {<<65>>, <<122>>, <<195, 169>>}

RECURSIVE StringsOfLen(_)
StringsOfLen(n) ==
  IF n = 0 THEN {<<>>}
  ELSE {Append(s, c) : s \in StringsOfLen(n - 1), c \in CharSet}

Strings == UNION {StringsOfLen(n) : n \in 0..MaxChars}

RECURSIVE as_bytes(_)
as_bytes(s) == IF s = <<>> THEN <<>> ELSE Head(s) \o as_bytes(Tail(s))

IsAscii(s) == \A i \in 1..Len(s) : Len(s[i]) = 1 /\ s[i][1] < 128

(***************************************************************************)
(* u32 arithmetic.  A u32 is kept as two 16-bit limbs <<hi, lo>>.          *)
(***************************************************************************)
Pow2(n) == 2 ^ n

Limb == 2 ^ 16

\* (b as u32) << n for a byte b and 0 <= n < 32; bits shifted past bit 31 are lost.
Shl32(b, n) ==
  IF n < 16
  THEN <<((b * Pow2(n)) \div Limb) % Limb, (b * Pow2(n)) % Limb>>
  ELSE <<(b * Pow2(n - 16)) % Limb, 0>>

\* wrapping u32 addition
Add32(a, b) ==
  LET lo == a[2] + b[2]
  IN <<(a[1] + b[1] + (lo \div Limb)) % Limb, lo % Limb>>

RECURSIVE BitOr(_, _)
BitOr(a, b) ==
  IF a = 0 THEN b
  ELSE IF b = 0 THEN a
  ELSE (IF a % 2 = 1 \/ b % 2 = 1 THEN 1 ELSE 0) + 2 * BitOr(a \div 2, b \div 2)

Or32(a, b) == <<BitOr(a[1], b[1]), BitOr(a[2], b[2])>>

(***************************************************************************)
(* The two fourcc encoders.                                                *)
(***************************************************************************)
\* frame.rs:38  (buf[i] as u32) << i * 8      ('*' binds tighter than '<<')
\* the same line read as ((buf[i] as u32) << i) * 8
Frame_new_term_prec(b, i) == Shl32(b, i + 3)

Frame_new_term(b, i) == Shl32(b, i * 8)

\* frame.rs:36-39  for i in 0..buf.len() { fourcc += term }
RECURSIVE Frame_new_loop(_, _, _)
Frame_new_loop(buf, i, acc) ==
  IF i >= Len(buf) THEN acc
  ELSE Frame_new_loop(buf, i + 1, Add32(acc, Frame_new_term(buf[i + 1], i)))

Frame_new_fourcc(buf) == Frame_new_loop(buf, 0, <<0, 0>>)

\* lib.rs:49-51  for i in 0..4 { fourcc |= (bytes[i] as u32) << (i * 8) }
RECURSIVE fourcc_loop(_, _, _)
fourcc_loop(bytes, i, acc) ==
  IF i >= 4 THEN acc
  ELSE fourcc_loop(bytes, i + 1, Or32(acc, Shl32(bytes[i + 1], i * 8)))

\* lib.rs:45-54: bytes[i] panics (index out of bounds) when the string has
\* fewer than 4 bytes; bytes past the fourth are ignored.
fourcc(bytes) ==
  IF Len(bytes) < 4 THEN [res |-> "Panic", val |-> None]
  ELSE [res |-> "Ok", val |-> fourcc_loop(bytes, 0, <<0, 0>>)]

(***************************************************************************)
(* The native library, modelled from the specification.  Each operator     *)
(* takes the native state st (a record of the variables the library owns)  *)
(* and the choice u made when the pointer is dangling.                     *)
(***************************************************************************)
St ==
  [ptr |-> ptr, handle |-> handle, locked |-> locked, mapped |-> mapped,
   serial |-> serial, count |-> count, slotState |-> slotState,
   slotSerial |-> slotSerial]

\* A call through a dangling pointer that fails or does nothing.
Faults(st, h, u) == st.ptr[h] = "dangling" /\ u = "fault"

\* Descriptors: slot s is reached through descriptor s, the private buffer of
\* frame h through descriptor NSlots + h.
SlotFd(s) == s
PrivateFd(h) == NSlots + h
SlotOf(fd) == IF fd \in Slots THEN fd ELSE 0

\* A frame resolved by a client carries the serial of the occupant it was
\* resolved from (free-standing frames have serial 0).
IsClientFrame(st, h) == st.serial[h] > 0

\* spec 4.2: the retained serial no longer matches the slot's current occupant
IsStale(st, h) ==
  /\ IsClientFrame(st, h)
  /\ LET s == SlotOf(st.handle[h])
     IN s = 0 \/ st.slotState[s] # "Published" \/ st.slotSerial[s] # st.serial[h]

\* spec 4.1 create: an unbound frame descriptor, no backing memory yet
vsl_frame_init(st, h) ==
  [st EXCEPT !.ptr[h] = "valid", !.handle[h] = -1, !.locked[h] = FALSE,
             !.mapped[h] = FALSE, !.serial[h] = 0]

\* spec 4.1 allocate: binds backing memory of the frame's own
vsl_frame_alloc(st, h, ok, u) ==
  IF ok /\ ~Faults(st, h, u)
  THEN [ret |-> 0, st |-> [st EXCEPT !.handle[h] = PrivateFd(h)]]
  ELSE [ret |-> -1, st |-> st]

\* spec 4.1 attach: binds the frame to an externally supplied descriptor
vsl_frame_attach(st, h, fd, size, u) ==
  IF Faults(st, h, u) \/ fd < 0 \/ size = 0
  THEN [ret |-> -1, st |-> st]
  ELSE [ret |-> 0, st |-> [st EXCEPT !.handle[h] = fd]]

\* spec 4.1 try_lock: non-blocking; the lock of a buffer is held by at most
\* one frame; a frame without a descriptor has nothing to lock.
vsl_frame_trylock(st, h, u) ==
  IF \/ Faults(st, h, u)
     \/ st.handle[h] = -1
     \/ \E g \in Handles : st.locked[g] /\ st.handle[g] = st.handle[h]
  THEN [ret |-> -1, st |-> st]
  ELSE [ret |-> 0, st |-> [st EXCEPT !.locked[h] = TRUE]]

\* unlock that gives up the lock of the buffer whichever frame holds it
vsl_frame_unlock_any(st, h, u) ==
  IF Faults(st, h, u) \/ ~(\E g \in Handles : st.locked[g] /\ st.handle[g] = st.handle[h])
  THEN [ret |-> -1, st |-> st]
  ELSE [ret |-> 0,
        st |-> [st EXCEPT !.locked = [g \in Handles |->
                  IF st.handle[g] = st.handle[h] THEN FALSE ELSE st.locked[g]]]]

\* spec 4.1 unlock: Ok, or NotLocked when this frame does not hold the lock
vsl_frame_unlock(st, h, u) ==
  IF Faults(st, h, u) \/ ~st.locked[h]
  THEN [ret |-> -1, st |-> st]
  ELSE [ret |-> 0, st |-> [st EXCEPT !.locked[h] = FALSE]]

\* spec 4.1 unmap
vsl_frame_munmap(st, h, u) ==
  IF Faults(st, h, u) THEN st ELSE [st EXCEPT !.mapped[h] = FALSE]

\* spec 4.1 map: a view over size() bytes.  The lock is advisory (spec 9): it
\* is not consulted.  A client frame whose slot has a new occupant is
\* rejected (spec 4.2).  What the native call does for a frame without a
\* descriptor is not specified: `any` says whether it maps.
vsl_frame_mmap(st, h, u, any) ==
  IF \/ Faults(st, h, u)
     \/ IsStale(st, h)
     \/ (st.handle[h] = -1 /\ ~any)
  THEN [null |-> TRUE, size |-> 0, st |-> st]
  ELSE [null |-> FALSE, size |-> 1, st |-> [st EXCEPT !.mapped[h] = TRUE]]

\* spec 4.1 accessors
vsl_frame_handle(st, h, u) == IF Faults(st, h, u) THEN -1 ELSE st.handle[h]

vsl_frame_serial(st, h, u) == IF Faults(st, h, u) THEN -1 ELSE st.serial[h]

\* spec 4.1 release: unlocks if locked, unmaps if mapped, gives the frame's
\* reference on its slot back (decrements the ownership count) and frees the
\* VSLFrame.  Each Frame holds exactly one reference, so the release of a
\* valid frame is the last release of that frame.
vsl_frame_release(st, h, u) ==
  IF Faults(st, h, u) THEN st
  ELSE LET s == SlotOf(st.handle[h])
       IN [st EXCEPT !.ptr[h] = "dangling", !.locked[h] = FALSE,
                     !.mapped[h] = FALSE,
                     !.count = IF IsClientFrame(st, h) /\ ~IsStale(st, h)
                               THEN [st.count EXCEPT ![s] = @ - 1]
                               ELSE @]

\* spec 4.3 get_frame: resolves the notification of published slot s into a
\* frame bound to the slot's memory, reference-counted against the slot.
Client_get_frame(st, h, s) ==
  [st EXCEPT !.ptr[h] = "valid", !.handle[h] = SlotFd(s), !.locked[h] = FALSE,
             !.mapped[h] = FALSE, !.serial[h] = st.slotSerial[s],
             !.count[s] = @ + 1]

\* The native state becomes st.
Apply(st) ==
  /\ ptr' = st.ptr
  /\ handle' = st.handle
  /\ locked' = st.locked
  /\ mapped' = st.mapped
  /\ serial' = st.serial
  /\ count' = st.count

(***************************************************************************)
(* The Rust wrapper, src/src/frame.rs and src/src/lib.rs.                  *)
(***************************************************************************)
TypeOK ==
  /\ frame \in [Handles -> {"none", "live", "dropped"}]
  /\ ptr \in [Handles -> {"null", "valid", "dangling"}]
  /\ handle \in [Handles -> -1..(NSlots + Cardinality(Handles))]
  /\ locked \in [Handles -> BOOLEAN]
  /\ mapped \in [Handles -> BOOLEAN]
  /\ serial \in [Handles -> 0..MaxSerial]
  /\ slotState \in [Slots -> {"Free", "Allocated", "Published"}]
  /\ count \in [Slots -> (0 - MaxDebt)..Cardinality(Handles)]
  /\ slotSerial \in [Slots -> 0..MaxSerial]
  /\ nextSerial \in 1..(MaxSerial + 1)
  /\ code \in Strings

\* The Frame value a constructor produces: the lowest unused one of the
\* first n, 0 when the run has created n already.
NextHandle(n) ==
  IF \E h \in 1..n : frame[h] = "none"
  THEN CHOOSE h \in 1..n : frame[h] = "none" /\ \A g \in 1..(h - 1) : frame[g] # "none"
  ELSE 0

\* The outcomes of a native call through Frame h's pointer to choose from.
UBOf(h) == IF ptr[h] = "dangling" THEN UB ELSE {"stale"}

InBounds(st) == \A s \in Slots : st.count[s] >= 0 - MaxDebt

\* frame.rs:33  if buf.len() != 4 { return Err(..) }
Frame_new_len_ok(buf) == Len(buf) = 4

\* frame.rs:26-50  Frame::new; `ok` is vsl_frame_init returning non-null
Frame_new(s, n) ==
  LET h == NextHandle(n)
      buf == as_bytes(s)
  IN /\ h # 0
     /\ UNCHANGED <<hostVars, code>>
     /\ IF ~Frame_new_len_ok(buf)
        THEN /\ last' = Result("InvalidFormat", None)
             /\ UNCHANGED frameVars
        ELSE \E ok \in BOOLEAN :
               IF ~ok
               THEN /\ last' = Result("OsError", None)
                    /\ UNCHANGED frameVars
               ELSE /\ frame' = [frame EXCEPT ![h] = "live"]
                    /\ Apply(vsl_frame_init(St, h))
                    /\ UNCHANGED <<slotState, slotSerial, nextSerial>>
                    /\ last' = Result("Ok", Frame_new_fourcc(buf))

\* lib.rs:45-54  fourcc
fourcc_call(s) ==
  /\ last' = Result(fourcc(as_bytes(s)).res, fourcc(as_bytes(s)).val)
  /\ UNCHANGED <<frameVars, hostVars, code>>

\* frame.rs:62  if ret != 0 { Err }
Frame_alloc_result(ret) == IF ret # 0 THEN "OsError" ELSE "Ok"

\* frame.rs:52-67  Frame::alloc; `ok` is the allocation succeeding (the path
\* only selects file-backed over anonymous memory).  Allocating twice is
\* undefined (spec 4.1) and left to the caller to avoid: only unbound frames
\* are allocated or attached.
Frame_alloc(h) ==
  /\ frame[h] = "live"
  /\ handle[h] = -1
  /\ \E ok \in BOOLEAN, u \in UBOf(h) :
       LET r == vsl_frame_alloc(St, h, ok, u)
       IN /\ Apply(r.st)
          /\ last' = Result(Frame_alloc_result(r.ret), None)
  /\ UNCHANGED <<frame, slotState, slotSerial, nextSerial, code>>

\* frame.rs:214  if ret < 0 { Err }
Frame_attach_result(ret) == IF ret < 0 THEN "OsError" ELSE "Ok"

\* frame.rs:212-219  Frame::attach
Frame_attach(h, fd, size) ==
  /\ frame[h] = "live"
  /\ handle[h] = -1
  /\ \E u \in UBOf(h) :
       LET r == vsl_frame_attach(St, h, fd, size, u)
       IN /\ Apply(r.st)
          /\ last' = Result(Frame_attach_result(r.ret), None)
  /\ UNCHANGED <<frame, slotState, slotSerial, nextSerial, code>>

\* frame.rs:77-79  Frame::release: takes &self, the Frame stays usable
Frame_release_munmap(st, h, u) == vsl_frame_munmap(st, h, u)

Frame_release_call(st, h, u) == vsl_frame_release(st, h, u)

Frame_release(h) ==
  /\ frame[h] = "live"
  /\ last' = Done
  /\ UNCHANGED <<frame, slotState, slotSerial, nextSerial, code>>
  /\ \E u \in UBOf(h) :
       LET st == Frame_release_call(St, h, u)
       IN /\ InBounds(st)
          /\ Apply(st)

\* frame.rs:237-244  Drop: vsl_frame_unlock, then vsl_frame_release
Drop_glue(st, h, u1, u2) ==
  vsl_frame_release(vsl_frame_unlock(st, h, u1).st, h, u2)

Frame_drop(h) ==
  /\ frame[h] = "live"
  /\ frame' = [frame EXCEPT ![h] = "dropped"]
  /\ last' = Done
  /\ UNCHANGED <<slotState, slotSerial, nextSerial, code>>
  /\ \E u1, u2 \in UBOf(h) :
       LET st == Drop_glue(St, h, u1, u2)
       IN /\ InBounds(st)
          /\ Apply(st)

\* Client::get_frame(until): a Frame holding one reference on a published
\* slot, or an error (Timeout, ConnectionClosed).
get_frame(n) ==
  LET h == NextHandle(n)
  IN /\ h # 0
     /\ UNCHANGED <<slotState, slotSerial, nextSerial, code>>
     /\ \/ /\ last' = Result("ClientError", None)
           /\ UNCHANGED <<frameVars, count>>
        \/ \E s \in Slots :
             /\ slotState[s] = "Published"
             /\ frame' = [frame EXCEPT ![h] = "live"]
             /\ Apply(Client_get_frame(St, h, s))
             /\ last' = Done

\* frame.rs:81-84  Frame::wait: `wrapper` is the Frame get_frame returned; its
\* pointer is copied into a second Frame, and `wrapper` is dropped when wait
\* returns (Drop runs on a valid frame, the choices do not matter).
Frame_wait_result(st, h) == Drop_glue(st, h, "stale", "stale")

Frame_wait(n) ==
  LET h == NextHandle(n)
  IN /\ h # 0
     /\ UNCHANGED <<slotState, slotSerial, nextSerial, code>>
     /\ \/ /\ last' = Result("ClientError", None)
           /\ UNCHANGED <<frameVars, count>>
        \/ \E s \in Slots :
             /\ slotState[s] = "Published"
             /\ frame' = [frame EXCEPT ![h] = "live"]
             /\ Apply(Frame_wait_result(Client_get_frame(St, h, s), h))
             /\ last' = Done

\* frame.rs:88  if ret != 0 { Err }
Frame_trylock_result_neg(ret) == IF ret > 0 THEN "OsError" ELSE "Ok"

Frame_trylock_result(ret) == IF ret # 0 THEN "OsError" ELSE "Ok"

\* frame.rs:86-93  Frame::trylock
Frame_trylock(h) ==
  /\ frame[h] = "live"
  /\ UNCHANGED <<frame, slotState, slotSerial, nextSerial, code>>
  /\ \E u \in UBOf(h) :
       LET r == vsl_frame_trylock(St, h, u)
       IN /\ Apply(r.st)
          /\ last' = Result(Frame_trylock_result(r.ret), None)

\* frame.rs:96  if ret == -1 { Err }
Frame_unlock_result(ret) == IF ret = -1 THEN "OsError" ELSE "Ok"

\* frame.rs:95-101  Frame::unlock
Frame_unlock(h) ==
  /\ frame[h] = "live"
  /\ UNCHANGED <<frame, slotState, slotSerial, nextSerial, code>>
  /\ \E u \in UBOf(h) :
       LET r == vsl_frame_unlock(St, h, u)
       IN /\ Apply(r.st)
          /\ last' = Result(Frame_unlock_result(r.ret), None)

\* frame.rs:103-105  Frame::serial
Frame_serial(h) ==
  /\ frame[h] = "live"
  /\ \E u \in UBOf(h) : vsl_frame_serial(St, h, u) \in -1..MaxSerial
  /\ last' = Done
  /\ UNCHANGED <<frameVars, hostVars, code>>

\* frame.rs:152-158  Frame::handle
Frame_handle_zero(ret) == IF ret = 0 THEN None ELSE Some(ret)

Frame_handle(ret) == IF ret = -1 THEN None ELSE Some(ret)

\* frame.rs:185, 197  if self.handle() == None { return Err(()) }
MapGuard_missing(hd) == TRUE

MapGuard(hd) == hd # None

\* frame.rs:190, 202  if ptr.is_null() || size == 0 { return Err(()) }
MapFailed_never(null, size) == FALSE

MapFailed(null, size) == null \/ size = 0

\* frame.rs:184-194  Frame::mmap, and frame.rs:196-206  Frame::mmap_mut: the
\* same code line for line, the view handed out as &[u8] or as &mut [u8].
\* vsl_frame_mmap is called only when the guard lets the call through.
Frame_mmap(h) ==
  /\ frame[h] = "live"
  /\ UNCHANGED <<frame, slotState, slotSerial, nextSerial, code>>
  /\ \E u1 \in UBOf(h) :
       IF ~MapGuard(Frame_handle(vsl_frame_handle(St, h, u1)))
       THEN /\ last' = Result("Err", None)
            /\ UNCHANGED <<ptr, handle, locked, mapped, serial, count>>
       ELSE \E u2 \in UBOf(h), any \in (IF handle[h] = -1 THEN BOOLEAN ELSE {TRUE}) :
              LET r == vsl_frame_mmap(St, h, u2, any)
              IN /\ Apply(r.st)
                 /\ last' = Result(IF MapFailed(r.null, r.size) THEN "Err" ELSE "Ok", None)

\* frame.rs:208-210  Frame::munmap
Frame_munmap(h) ==
  /\ frame[h] = "live"
  /\ \E u \in UBOf(h) : Apply(vsl_frame_munmap(St, h, u))
  /\ last' = Done
  /\ UNCHANGED <<frame, slotState, slotSerial, nextSerial, code>>

(***************************************************************************)
(* The host, modelled from the specification (4.2).                        *)
(***************************************************************************)
\* A slot the pool can hand out: a free one, or a published one no client
\* references any more.
Reusable(s) == slotState[s] = "Free" \/ (slotState[s] = "Published" /\ count[s] <= 0)

\* new_frame: takes the first reusable slot of the pool; the slot has no
\* occupant serial until it is published
HostNewFrame(s) ==
  /\ Reusable(s)
  /\ \A g \in 1..(s - 1) : ~Reusable(g)
  /\ slotState' = [slotState EXCEPT ![s] = "Allocated"]
  /\ count' = [count EXCEPT ![s] = 0]
  /\ slotSerial' = [slotSerial EXCEPT ![s] = 0]
  /\ last' = Done
  /\ UNCHANGED <<frameVars, nextSerial, code>>

\* publish: marks the frame ready and assigns a fresh serial
HostPublish(s) ==
  /\ slotState[s] = "Allocated"
  /\ nextSerial <= MaxSerial
  /\ slotState' = [slotState EXCEPT ![s] = "Published"]
  /\ slotSerial' = [slotSerial EXCEPT ![s] = nextSerial]
  /\ nextSerial' = nextSerial + 1
  /\ last' = Done
  /\ UNCHANGED <<frameVars, count, code>>

\* expiry: a slot clients still reference is force-reclaimed
HostExpire(s) ==
  /\ slotState[s] = "Published"
  /\ count[s] > 0
  /\ slotState' = [slotState EXCEPT ![s] = "Free"]
  /\ count' = [count EXCEPT ![s] = 0]
  /\ slotSerial' = [slotSerial EXCEPT ![s] = 0]
  /\ last' = Done
  /\ UNCHANGED <<frameVars, nextSerial, code>>

(***************************************************************************)
(* Specifications.                                                         *)
(***************************************************************************)
InitFrames ==
  /\ frame = [h \in Handles |-> "none"]
  /\ ptr = [h \in Handles |-> "null"]
  /\ handle = [h \in Handles |-> -1]
  /\ locked = [h \in Handles |-> FALSE]
  /\ mapped = [h \in Handles |-> FALSE]
  /\ serial = [h \in Handles |-> 0]
  /\ count = [s \in Slots |-> 0]
  /\ last = NoCall

InitHost ==
  /\ slotState = [s \in Slots |-> "Free"]
  /\ slotSerial = [s \in Slots |-> 0]
  /\ nextSerial = 1

\* The format strings Frame::new is called with in Spec: "AzA" and "AzAz".
NewFormats == {<<<<65>>, <<122>>, <<65>>>>, <<<<65>>, <<122>>, <<65>>, <<122>>>>}

\* Every operation, on up to NFrames frames.
Init == InitFrames /\ InitHost /\ code = <<>>

Next ==
  \/ \E s \in NewFormats : Frame_new(s, NFrames)
  \/ get_frame(NFrames)
  \/ Frame_wait(NFrames)
  \/ \E h \in Handles : Frame_alloc(h)
  \/ \E h \in Handles, fd \in {-1} \cup {SlotFd(s) : s \in Slots}, size \in {0, 1} :
       Frame_attach(h, fd, size)
  \/ \E h \in Handles : Frame_release(h)
  \/ \E h \in Handles : Frame_trylock(h)
  \/ \E h \in Handles : Frame_unlock(h)
  \/ \E h \in Handles : Frame_serial(h)
  \/ \E h \in Handles : Frame_mmap(h)
  \/ \E h \in Handles : Frame_munmap(h)
  \/ \E h \in Handles : Frame_drop(h)
  \/ \E s \in Slots : HostNewFrame(s)
  \/ \E s \in Slots : HostPublish(s)
  \/ \E s \in Slots : HostExpire(s)

Spec == Init /\ [][Next]_vars

\* Several owners of one buffer: up to NOwners clients' frames of the slot
\* the host has published, which the host leaves to them.
InitOwners ==
  /\ InitFrames
  /\ slotState = [s \in Slots |-> IF s = 1 THEN "Published" ELSE "Free"]
  /\ slotSerial = [s \in Slots |-> IF s = 1 THEN 1 ELSE 0]
  /\ nextSerial = 2
  /\ code = <<>>

NextOwners ==
  \/ get_frame(NOwners)
  \/ \E h \in Handles : Frame_release(h)
  \/ \E h \in Handles : Frame_trylock(h)
  \/ \E h \in Handles : Frame_unlock(h)
  \/ \E h \in Handles : Frame_mmap(h)
  \/ \E h \in Handles : Frame_munmap(h)
  \/ \E h \in Handles : Frame_drop(h)

SpecOwners == InitOwners /\ [][NextOwners]_vars

\* The format-string calls on every string of up to MaxChars characters.
InitFourcc == InitFrames /\ InitHost /\ code \in Strings

NextFourcc ==
  \/ Frame_new(code, NFrames)
  \/ fourcc_call(code)

SpecFourcc == InitFourcc /\ [][NextFourcc]_vars

(***************************************************************************)
(* Properties.  A step property names the call by its action: a step is a  *)
(* call of Frame::trylock through Frame h when it satisfies                *)
(* Frame_trylock(h).                                                       *)
(***************************************************************************)
\* Two frames on the same underlying buffer.
SameBuffer(a, b) == handle[a] # -1 /\ handle[a] = handle[b]

\* Frame h is usable by its owner: the Frame value exists and still holds
\* its reference.
Owned(h) == frame[h] = "live" /\ ptr[h] = "valid"

C1_OneHolder ==
  \A a, b \in Handles : (a # b /\ SameBuffer(a, b)) => ~(locked[a] /\ locked[b])

C1_ContendedTrylock ==
  \A h, a \in Handles :
    (a # h /\ SameBuffer(a, h) /\ locked[a] /\ Frame_trylock(h))
      => (last'.res = "OsError" /\ locked' = locked /\ mapped' = mapped)

\* C1 (SpecOwners): at most one frame of a buffer holds its lock in every
\* reachable state, and a trylock made while another frame of the buffer
\* holds the lock returns an error in that step and leaves every frame's lock
\* state and mapped view as they were.
C1_TrylockExclusive == [](C1_OneHolder) /\ [][C1_ContendedTrylock]_vars

C1_Witness ==
  /\ last.res = "OsError"
  /\ \E a, b \in Handles :
       /\ a # b /\ SameBuffer(a, b)
       /\ Owned(a) /\ locked[a] /\ mapped[a]
       /\ Owned(b) /\ ~locked[b]

C2_SecondRelease ==
  \A h \in Handles :
    (ptr[h] = "dangling" /\ (Frame_release(h) \/ Frame_drop(h)))
      => count' = count

\* C2 (SpecOwners), the claim as stated: a release() or a drop through a
\* Frame that has already released its reference leaves every ownership
\* count as it was.
C2_ReleaseOncePerHandle == [][C2_SecondRelease]_vars

C3_WaitStep ==
  \A h \in Handles :
    (frame[h] = "none" /\ frame'[h] = "live" /\ Frame_wait(NFrames))
      => (ptr'[h] = "valid" /\ count'[SlotOf(handle'[h])] >= 1)

\* C3 (Spec), the claim as stated: in the state Frame::wait returns to, the
\* returned Frame holds a live reference on the slot it was resolved from.
C3_WaitReturnsOwnedFrame == [][C3_WaitStep]_vars

\* C4 (Spec), the claim as stated: a frame has a mapped view only while it
\* holds the lock.
C4_ViewOnlyWhileLocked == \A h \in Handles : mapped[h] => locked[h]

\* C4 (Spec), amended: a frame has a mapped view only if it has a backing
\* descriptor; the lock is not required (the witness is a view on a frame
\* that does not hold it).
C4_ViewOnlyWithDescriptor == \A h \in Handles : mapped[h] => handle[h] # -1

C4_Witness ==
  /\ last.res = "Ok"
  /\ \E h \in Handles : Owned(h) /\ mapped[h] /\ ~locked[h]

C5_LastRelease ==
  \A h \in Handles :
    (ptr[h] = "valid" /\ (Frame_release(h) \/ Frame_drop(h)))
      => (ptr'[h] = "dangling" /\ ~locked'[h] /\ ~mapped'[h])

C6_StaleMap ==
  \A h \in Handles :
    (serial[h] > 0 /\ IsStale(St, h) /\ Frame_mmap(h))
      => (last'.res = "Err" /\ mapped' = mapped)

C7_UnboundMap ==
  \A h \in Handles :
    (handle[h] = -1 /\ Frame_mmap(h))
      => (last'.res = "Err" /\ locked' = locked /\ mapped' = mapped /\ handle' = handle)

\* C7 (Spec): mmap or mmap_mut through a Frame without a backing descriptor
\* returns an error and leaves lock state, views and descriptors unchanged.
C7_UnboundMapFails == [][C7_UnboundMap]_vars

C7_Witness ==
  /\ last.res = "Err"
  /\ \E h \in Handles : Owned(h) /\ handle[h] = -1 /\ ~mapped[h]

\* C8 (SpecFourcc), the claim as stated, read in the code's favour (length
\* counted in bytes, a panic counted as a failure): Frame::new and fourcc
\* fail, creating no Frame and producing no value, when the string is not
\* exactly 4 long, and do not reject a string that is.
C8_FourCharactersOrInvalidFormat ==
  (last # NoCall)
    => IF Len(as_bytes(code)) # 4
       THEN /\ last.res \in {"InvalidFormat", "Panic"}
            /\ last.val = None
            /\ \A h \in Handles : frame[h] = "none"
       ELSE last.res \notin {"InvalidFormat", "Panic"}

\* The bytes of a u32, low to high.
Decode32(v) == <<v[2] % 256, v[2] \div 256, v[1] % 256, v[1] \div 256>>

\* C9 (SpecFourcc): the value either encoder computes for a string of 4
\* ASCII characters decodes, bytes low to high, to the string's bytes.
C9_RoundTrip ==
  (last.val # None /\ Len(code) = 4 /\ IsAscii(code))
    => Decode32(last.val) = as_bytes(code)

C9_Witness ==
  /\ last.res = "Ok" /\ last.val # None
  /\ \E h \in Handles : frame[h] = "live"
  /\ Len(code) = 4 /\ IsAscii(code) /\ code[1] # code[2]

\* trylock through Frame c fails in this state, whatever is chosen.
TrylockFails(c) ==
  \A u \in UBOf(c) : Frame_trylock_result(vsl_frame_trylock(St, c, u).ret) = "OsError"

C10_DropOfNonHolder ==
  \A a, b \in Handles :
    (a # b /\ SameBuffer(a, b) /\ locked[a] /\ ~locked[b] /\ Frame_drop(b))
      => /\ locked'[a]
         /\ \A c \in Handles \ {a, b} :
              (frame'[c] = "live" /\ SameBuffer(c, a)) => TrylockFails(c)'

\* C10 (SpecOwners): dropping a Frame that does not hold the lock of its
\* buffer while another frame of the buffer holds it leaves that frame
\* holding the lock, and a trylock through any further live Frame of the
\* buffer fails afterwards.
C10_DropKeepsOthersLock == [][C10_DropOfNonHolder]_vars

C10_Witness ==
  /\ last = Done
  /\ \E a, b, c \in Handles :
       /\ Cardinality({a, b, c}) = 3
       /\ SameBuffer(a, b) /\ SameBuffer(a, c)
       /\ frame[b] = "dropped" /\ ~locked[b]
       /\ Owned(a) /\ locked[a]
       /\ Owned(c) /\ ~locked[c]

=============================================================================
